---- MODULE Spec2Model ----
(***************************************************************************)
(* Model of the kanakku account importer, tools/accountimporter/src/main.rs *)
(*                                                                         *)
(* The importer is one sequential run: build the X-API-Key header,         *)
(* resolve the book name with GET /api/v1/books, open and parse the ledger *)
(* file, then POST one account per extracted line to /api/v1/accounts.     *)
(* Text is modelled as sequences of one-character strings, printed lines   *)
(* as format strings with their arguments, JSON documents as their values. *)
(***************************************************************************)
EXTENDS Integers, Sequences, FiniteSets, TLC

VARIABLES
    pc,          \* position of main: "start","resolve","open","read","report","create","done"
    token,       \* args.token, a sequence of byte values
    dry_run,     \* args.dry_run
    verbose,     \* args.verbose
    book_name,   \* args.book_name
    file_ok,     \* whether File::open(&args.file) succeeds
    lines,       \* the items reader.lines() yields, in file order
    line_no,     \* number of items of lines consumed so far
    book_id,     \* the resolved book id (0 until resolved)
    get_kind,    \* the kind of answer the books GET got ("none" before it)
    accounts,    \* the Vec<Account> built by the parse loop
    idx,         \* number of accounts the creation loop has consumed
    net,         \* every HTTP request sent so far, in order
    outcomes,    \* the Result of every create_account call so far, in order
    out,         \* everything printed so far (stdout and stderr), in order
    exit_status, \* "running", "ok" (main returned Ok) or "fail" (main returned Err)
    fn,          \* the function a function-level specification applies, and whether it has
    inp,         \* the input of that function
    res          \* its result, once applied

vars == <<pc, token, dry_run, verbose, book_name, file_ok, lines, line_no,
          book_id, get_kind, accounts, idx, net, outcomes, out, exit_status,
          fn, inp, res>>

runVars == <<pc, token, dry_run, verbose, book_name, file_ok, lines, line_no,
             book_id, get_kind, accounts, idx, net, outcomes, out, exit_status>>

fnVars == <<fn, inp, res>>

----------------------------------------------------------------------------
(* Bounds *)

MaxLines == 2    \* items in the ledger file of a run
MaxTail  == 3    \* characters after the line prefix, for the extractor
MaxBooks == 2    \* records in a books listing

----------------------------------------------------------------------------
(* Text *)

\* The whitespace characters: those \s matches and str::trim removes.
WS == {" ", "\t"}

\* The literal the pattern starts with.
Literal == <<"a", "c", "c", "o", "u", "n", "t">>

RECURSIVE WsRun(_)
\* Length of the longest all-whitespace prefix of s.
WsRun(s) ==
    IF s = <<>> \/ s[1] \notin WS THEN 0 ELSE 1 + WsRun(Tail(s))

RECURSIVE TrimStart(_)
TrimStart(s) ==
    IF s = <<>> \/ s[1] \notin WS THEN s ELSE TrimStart(Tail(s))

RECURSIVE TrimEnd(_)
TrimEnd(s) ==
    IF s = <<>> \/ s[Len(s)] \notin WS THEN s ELSE TrimEnd(SubSeq(s, 1, Len(s) - 1))

\* str::trim
Trim(s) == TrimEnd(TrimStart(s))

NoMatch == [matched |-> FALSE, g1 |-> <<>>]

\* account_re.captures(&line) for ^account\s+(.+)$ : the literal at the start
\* of the line, then the greedy \s+ takes the whole whitespace run but gives
\* back one character when nothing would be left for (.+), which captures the
\* rest of the line.
Captures(line) ==
    IF Len(line) < Len(Literal) \/ SubSeq(line, 1, Len(Literal)) # Literal
    THEN NoMatch
    ELSE LET rest == SubSeq(line, Len(Literal) + 1, Len(line))
             run  == WsRun(rest)
             k    == IF run = Len(rest) THEN run - 1 ELSE run
         IN  IF k >= 1
             THEN [matched |-> TRUE, g1 |-> SubSeq(rest, k + 1, Len(rest))]
             ELSE NoMatch

\* The Account pushed for a captured name.
MkAccount(name, bid) ==
    [name        |-> name,
     description |-> "Imported from ledger file",
     currency    |-> "INR",
     balance     |-> 0,
     book_id     |-> bid]

\* Body of the parse loop for one decoded line: the accounts it pushes.
ExtractLine(line, bid) ==
    LET c == Captures(line)
    IN  IF c.matched THEN <<MkAccount(Trim(c.g1), bid)>> ELSE <<>>

----------------------------------------------------------------------------
(* Formatted text: a format string with its arguments, as format!/println! take them *)

Fmt(f, a) == [fmt |-> f, args |-> a]

----------------------------------------------------------------------------
(* JSON documents, as the values serde_json parses them to *)

JInvalid == [t |-> "invalid"]     \* the text is not JSON (the empty text included)
JMissing == [t |-> "missing"]     \* a struct field the document does not have
JStr(s)  == [t |-> "str", s |-> s]
JNum(n)  == [t |-> "num", n |-> n]
JObj(f)  == [t |-> "obj", f |-> f]
JArr(e)  == [t |-> "arr", e |-> e]

\* The value serde hands to field `name` (the pos-th of n fields) of a derived
\* struct: by key from an object, unknown keys ignored; by position from an
\* array of exactly n elements.
StructField(v, name, pos, n) ==
    IF v.t = "obj"
    THEN IF name \in DOMAIN v.f THEN v.f[name] ELSE JMissing
    ELSE IF v.t = "arr" /\ Len(v.e) = n THEN v.e[pos] ELSE JMissing

\* Whether the value is a number an i32 holds.
IsI32(v) == v.t = "num" /\ v.n >= -2147483647 - 1 /\ v.n <= 2147483647

NoAccountResponse == [id |-> 0, name |-> ""]
NoApiResponse == [message |-> "", account |-> NoAccountResponse]

\* serde_json::from_str::<ErrorResponse>
DeserializeErrorResponse(v) ==
    LET e == StructField(v, "error", 1, 1)
    IN  IF e.t = "str" THEN [ok |-> TRUE, error |-> e.s]
                       ELSE [ok |-> FALSE, error |-> ""]

\* Deserialize for AccountResponse
DeserializeAccountResponse(v) ==
    LET i == StructField(v, "id", 1, 2)
        n == StructField(v, "name", 2, 2)
    IN  IF IsI32(i) /\ n.t = "str"
        THEN [ok |-> TRUE, value |-> [id |-> i.n, name |-> n.s]]
        ELSE [ok |-> FALSE, value |-> NoAccountResponse]

\* Deserialize for ApiResponse
DeserializeApiResponse(v) ==
    LET m == StructField(v, "message", 1, 2)
        a == DeserializeAccountResponse(StructField(v, "account", 2, 2))
    IN  IF m.t = "str" /\ a.ok
        THEN [ok |-> TRUE, value |-> [message |-> m.s, account |-> a.value]]
        ELSE [ok |-> FALSE, value |-> NoApiResponse]

\* Deserialize for Book
DeserializeBook(v) ==
    LET i == StructField(v, "id", 1, 2)
        n == StructField(v, "name", 2, 2)
    IN  IF IsI32(i) /\ n.t = "str"
        THEN [ok |-> TRUE, value |-> [id |-> i.n, name |-> n.s]]
        ELSE [ok |-> FALSE, value |-> [id |-> 0, name |-> ""]]

\* Deserialize for Vec<Book>
DeserializeBooks(v) ==
    IF v.t = "arr" /\ \A i \in 1..Len(v.e) : DeserializeBook(v.e[i]).ok
    THEN [ok |-> TRUE, value |-> [i \in 1..Len(v.e) |-> DeserializeBook(v.e[i]).value]]
    ELSE [ok |-> FALSE, value |-> <<>>]

----------------------------------------------------------------------------
(* HTTP *)

\* A response body: whether reading it succeeds, its text, and the document
\* the text denotes.
Body(readable, text, json) == [readable |-> readable, text |-> text, json |-> json]

\* What client.send() yields: a transport failure, or a response.
Response(status, body) == [sent |-> TRUE, status |-> status, body |-> body]
TransportFailure == [sent |-> FALSE, status |-> 0, body |-> Body(FALSE, "", JInvalid)]

\* Mutant: redirections taken for successes.
IsSuccessBelow400(status) == status >= 200 /\ status < 400

\* StatusCode::is_success
IsSuccess(status) == status >= 200 /\ status < 300

\* StatusCode::canonical_reason, for the statuses of the model
CanonicalReason(status) ==
    CASE status = 200 -> [some |-> TRUE, v |-> "OK"]
      [] status = 201 -> [some |-> TRUE, v |-> "Created"]
      [] status = 304 -> [some |-> TRUE, v |-> "Not Modified"]
      [] status = 400 -> [some |-> TRUE, v |-> "Bad Request"]
      [] status = 404 -> [some |-> TRUE, v |-> "Not Found"]
      [] status = 500 -> [some |-> TRUE, v |-> "Internal Server Error"]
      [] OTHER        -> [some |-> FALSE, v |-> ""]

UnwrapOr(opt, default) == IF opt.some THEN opt.v ELSE default

\* Display of a StatusCode: the code and its reason
StatusDisplay(status) ==
    Fmt("{} {}", <<status, UnwrapOr(CanonicalReason(status), "<unknown status code>")>>)

\* response.text().await.unwrap_or_default()
TextOrDefault(body) == IF body.readable THEN body.text ELSE ""

\* response.json::<T>(): the document, when the body can be read
JsonOf(body) == IF body.readable THEN body.json ELSE JInvalid

----------------------------------------------------------------------------
(* get_book_id_by_name *)

Ok(v)   == [ok |-> TRUE, value |-> v, err |-> <<>>]
\* An anyhow error: its chain of messages, outermost context first.
Err(v, chain) == [ok |-> FALSE, value |-> v, err |-> chain]

RECURSIVE FindBookLast(_, _)
\* Mutant: the scan keeps going, so the last book with the name wins.
FindBookLast(books, name) ==
    IF books = <<>> THEN [found |-> FALSE, id |-> 0]
    ELSE IF books[Len(books)].name = name
         THEN [found |-> TRUE, id |-> books[Len(books)].id]
    ELSE FindBookLast(SubSeq(books, 1, Len(books) - 1), name)

RECURSIVE FindBook(_, _)
\* The scan of the books: the id of the first book with the name, 0 for none
\* (the ids of the model are positive).
FindBook(books, name) ==
    IF books = <<>> THEN [found |-> FALSE, id |-> 0]
    ELSE IF books[1].name = name THEN [found |-> TRUE, id |-> books[1].id]
    ELSE FindBook(Tail(books), name)

\* Mutant: the status of the answer is not looked at.
GetBookIdByNameAnyStatus(resp, name) ==
    IF ~resp.sent
    THEN Err(0, <<Fmt("Failed to send API request to fetch books", <<>>),
                  Fmt("transport error", <<>>)>>)
    ELSE LET books == DeserializeBooks(JsonOf(resp.body))
         IN  IF ~books.ok
             THEN Err(0, <<Fmt("Failed to parse books response", <<>>),
                           Fmt("decode error", <<>>)>>)
             ELSE LET hit == FindBook(books.value, name)
                  IN  IF hit.found THEN Ok(hit.id)
                      ELSE Err(0, <<Fmt("No book found with name: {}", <<name>>)>>)

\* The function, from the response to its GET.
GetBookIdByName(resp, name) ==
    IF ~resp.sent
    THEN Err(0, <<Fmt("Failed to send API request to fetch books", <<>>),
                  Fmt("transport error", <<>>)>>)
    ELSE IF ~IsSuccess(resp.status)
    THEN Err(0, <<Fmt("API error when fetching books ({} {}): {}",
                      <<resp.status, UnwrapOr(CanonicalReason(resp.status), "Unknown"),
                        TextOrDefault(resp.body)>>)>>)
    ELSE LET books == DeserializeBooks(JsonOf(resp.body))
         IN  IF ~books.ok
             THEN Err(0, <<Fmt("Failed to parse books response", <<>>),
                           Fmt("decode error", <<>>)>>)
             ELSE LET hit == FindBook(books.value, name)
                  IN  IF hit.found THEN Ok(hit.id)
                      ELSE Err(0, <<Fmt("No book found with name: {}", <<name>>)>>)

----------------------------------------------------------------------------
(* create_account *)

\* The text of the error, from the body of a non-success response.
ErrorText(status, body_text, json) ==
    IF body_text # ""
    THEN LET error == DeserializeErrorResponse(json)
         IN  IF error.ok THEN Fmt("{}", <<error.error>>)
             ELSE Fmt("Error response: {}", <<body_text>>)
    ELSE Fmt("HTTP Error: {} (no response body)", <<StatusDisplay(status)>>)

\* The function, from the response to its POST.
CreateAccount(resp) ==
    IF ~resp.sent
    THEN Err(NoApiResponse, <<Fmt("Failed to send API request", <<>>),
                              Fmt("transport error", <<>>)>>)
    ELSE IF IsSuccess(resp.status)
    THEN LET api_response == DeserializeApiResponse(JsonOf(resp.body))
         IN  IF api_response.ok THEN Ok(api_response.value)
             ELSE Err(NoApiResponse, <<Fmt("Failed to parse API response", <<>>),
                                       Fmt("decode error", <<>>)>>)
    ELSE LET body_text == TextOrDefault(resp.body)
             json == IF body_text = "" THEN JInvalid ELSE resp.body.json
         IN  Err(NoApiResponse,
                 <<Fmt("API error ({} {}): {}",
                       <<resp.status, UnwrapOr(CanonicalReason(resp.status), "Unknown"),
                         ErrorText(resp.status, body_text, json)>>)>>)

----------------------------------------------------------------------------
(* The inputs of a run and the answers of the server *)

\* A byte HeaderValue::from_str accepts: visible ASCII and above, or a tab.
IsValidHeaderByte(b) == (b >= 32 /\ b # 127) \/ b = 9

\* HeaderValue::from_str(&args.token).is_ok()
IsValidHeaderValue(t) == \A i \in 1..Len(t) : IsValidHeaderByte(t[i])

\* The tokens of the model: "k", and "k" followed by a line feed.
Tokens == {<<107>>, <<107, 10>>}

\* args.api_url, at its default
ApiUrl == "http://localhost:8000"

\* An item reader.lines() yields: a decoded line, or a decoding error.
Line(text) == [ok |-> TRUE, text |-> text]
Undecodable == [ok |-> FALSE, text |-> <<>>]

\* The ledger lines of a run: a declaration, a declaration with nothing but
\* whitespace after the literal, a directive that is no declaration, a
\* declaration with surrounding whitespace, and bytes that are no text.
RunItems ==
    {Line(Literal \o <<" ", "x">>),
     Line(Literal \o <<" ", " ">>),
     Line(<<"x">>),
     Line(Literal \o <<"\t", "y", " ">>),
     Undecodable}

SeqsUpTo(S, n) == UNION {[1..k -> S] : k \in 0..n}

Files == SeqsUpTo(RunItems, MaxLines)

BookIds == {1, 2}
BookNames == {"Main", "main", "Mai"}
RequestedNames == {"Main", "Mai"}

Books == [id : BookIds, name : BookNames]
BookLists == SeqsUpTo(Books, MaxBooks)

\* The JSON document of a books listing.
BooksJson(books) ==
    JArr([i \in 1..Len(books) |->
            JObj([id |-> JNum(books[i].id), name |-> JStr(books[i].name)])])

BooksBody(books) == Body(TRUE, ToString(books), BooksJson(books))

HtmlBody == Body(TRUE, "<html>Bad Gateway</html>", JInvalid)
EmptyBody == Body(TRUE, "", JInvalid)
\* A body whose transfer breaks off.
BrokenBody == Body(FALSE, "{\"error\":\"Bad request\"}",
                   JObj([error |-> JStr("Bad request")]))
\* A listing with a record whose id is no number.
BadBooksBody ==
    Body(TRUE, "[{\"id\":\"1\",\"name\":\"Main\"}]",
         JArr(<<JObj([id |-> JStr("1"), name |-> JStr("Main")])>>))

Statuses == {200, 201, 304, 400, 404, 500, 599}

GetBodies == {BooksBody(b) : b \in BookLists}
                \cup {HtmlBody, EmptyBody, BrokenBody, BadBooksBody}

GetResponses ==
    {TransportFailure} \cup {Response(s, b) : s \in {200, 404, 500}, b \in GetBodies}

CreatedBody ==
    Body(TRUE, "{\"message\":\"Account created\",\"account\":{\"id\":42,\"name\":\"Test\"}}",
         JObj([message |-> JStr("Account created"),
               account |-> JObj([id |-> JNum(42), name |-> JStr("Test")])]))
ErrJsonBody ==
    Body(TRUE, "{\"error\":\"Bad request\"}", JObj([error |-> JStr("Bad request")]))
ErrExtraBody ==
    Body(TRUE, "{\"error\":\"Bad request\",\"code\":7}",
         JObj([error |-> JStr("Bad request"), code |-> JNum(7)]))
ErrNumBody ==
    Body(TRUE, "{\"error\":5}", JObj([error |-> JNum(5)]))
MessageBody ==
    Body(TRUE, "{\"message\":\"nope\"}", JObj([message |-> JStr("nope")]))
\* serde reads a one-field struct from a one-element array too.
ErrArrayBody ==
    Body(TRUE, "[\"Bad request\"]", JArr(<<JStr("Bad request")>>))

PostBodies ==
    {CreatedBody, ErrJsonBody, ErrExtraBody, ErrNumBody, MessageBody, ErrArrayBody,
     HtmlBody, EmptyBody, BrokenBody}

PostResponses ==
    {TransportFailure} \cup {Response(s, b) : s \in Statuses, b \in PostBodies}

\* The answers to a POST within a run: one of each kind of outcome.
RunPostResponses ==
    {TransportFailure,
     Response(200, CreatedBody), Response(200, HtmlBody),
     Response(400, ErrJsonBody), Response(500, EmptyBody)}

\* A request as sent: the X-API-Key and Content-Type headers go with each.
Request(method, path, key, body) ==
    [method |-> method, url |-> Fmt("{}{}", <<ApiUrl, path>>),
     api_key |-> key, content_type |-> "application/json", body |-> body]

\* The kind of answer the books listing got.
ResponseKind(resp, name) ==
    IF ~resp.sent THEN "transport"
    ELSE IF resp.status \notin 200..299 THEN "status"
    ELSE IF ~resp.body.readable \/ resp.body.json.t # "arr" THEN "unparsable"
    ELSE IF \E i \in 1..Len(resp.body.json.e) :
               resp.body.json.e[i].f.id.t # "num" \/ resp.body.json.e[i].f.name.t # "str"
         THEN "unparsable"
    ELSE IF \E i \in 1..Len(resp.body.json.e) : resp.body.json.e[i].f.name.s = name
         THEN "match"
    ELSE "no_match"

Stdout(f, a) == [stream |-> "stdout", fmt |-> f, args |-> a]
Stderr(f, a) == [stream |-> "stderr", fmt |-> f, args |-> a]

\* What the runtime prints when main returns Err: the error with its chain.
ErrorExit(chain) == Stderr("Error: {:?}", <<chain>>)

----------------------------------------------------------------------------
(* main *)

Init ==
    /\ pc = "start"
    /\ token \in Tokens
    /\ dry_run \in BOOLEAN
    /\ verbose \in BOOLEAN
    /\ book_name \in RequestedNames
    /\ file_ok \in BOOLEAN
    /\ lines \in Files
    /\ file_ok = FALSE => lines = <<>>
    /\ line_no = 0
    /\ book_id = 0
    /\ get_kind = "none"
    /\ accounts = <<>>
    /\ idx = 0
    /\ net = <<>>
    /\ outcomes = <<>>
    /\ out = <<>>
    /\ exit_status = "running"
    /\ fn = [name |-> "main", applied |-> FALSE]
    /\ inp = <<>>
    /\ res = <<>>

\* main returns Err(chain)
Fail(chain, printed) ==
    /\ out' = printed \o <<ErrorExit(chain)>>
    /\ exit_status' = "fail"
    /\ pc' = "done"

\* Lines 172-187: the header set, and the verbose banner.
BuildHeaders ==
    /\ pc = "start"
    /\ IF ~IsValidHeaderValue(token)
       THEN Fail(<<Fmt("Failed to create X-API-Key header", <<>>),
                   Fmt("failed to parse header value", <<>>)>>, out)
       ELSE /\ out' = IF verbose
                      THEN out \o <<Stdout("Using X-API-Key authentication", <<>>),
                                    Stdout("API URL: {}", <<ApiUrl>>),
                                    Stdout("Book name: {}", <<book_name>>)>>
                      ELSE out
            /\ pc' = "resolve"
            /\ UNCHANGED exit_status
    /\ UNCHANGED <<token, dry_run, verbose, book_name, file_ok, lines, line_no,
                   book_id, get_kind, accounts, idx, net, outcomes>>
    /\ UNCHANGED fnVars

\* Lines 189-195: the call of get_book_id_by_name, with its GET.
GetBookId ==
    /\ pc = "resolve"
    /\ \E resp \in GetResponses :
         LET r == GetBookIdByName(resp, book_name)
             printed == out \o <<Stdout("Fetching books from: {}",
                                        <<Fmt("{}/api/v1/books", <<ApiUrl>>)>>)>>
         IN  /\ net' = Append(net, Request("GET", "/api/v1/books", token, <<>>))
             /\ get_kind' = ResponseKind(resp, book_name)
             /\ IF r.ok
                THEN /\ book_id' = r.value
                     /\ out' = IF verbose
                               THEN printed \o <<Stdout("Found book ID: {}", <<r.value>>)>>
                               ELSE printed
                     /\ pc' = "open"
                     /\ UNCHANGED exit_status
                ELSE /\ Fail(<<Fmt("Failed to find book by name", <<>>)>> \o r.err, printed)
                     /\ UNCHANGED book_id
    /\ UNCHANGED <<token, dry_run, verbose, book_name, file_ok, lines, line_no,
                   accounts, idx, outcomes>>
    /\ UNCHANGED fnVars

\* Lines 197-204: File::open, the reader and the pattern.
OpenFile ==
    /\ pc = "open"
    /\ IF ~file_ok
       THEN Fail(<<Fmt("Failed to open file: {}", <<"args.file">>),
                   Fmt("os error", <<>>)>>, out)
       ELSE /\ pc' = "read"
            /\ UNCHANGED <<out, exit_status>>
    /\ UNCHANGED <<token, dry_run, verbose, book_name, file_ok, lines, line_no,
                   book_id, get_kind, accounts, idx, net, outcomes>>
    /\ UNCHANGED fnVars

\* Mutant: a line that is no text is skipped.
ReadLineSkipUndecodable ==
    /\ pc = "read"
    /\ line_no < Len(lines)
    /\ LET item == lines[line_no + 1]
           found == IF item.ok THEN ExtractLine(item.text, book_id) ELSE <<>>
       IN  /\ accounts' = accounts \o found
           /\ out' = IF verbose
                     THEN out \o [i \in 1..Len(found) |->
                                    Stdout("Found account: {}", <<found[i].name>>)]
                     ELSE out
    /\ line_no' = line_no + 1
    /\ UNCHANGED <<pc, exit_status, token, dry_run, verbose, book_name, file_ok, lines,
                   book_id, get_kind, idx, net, outcomes>>
    /\ UNCHANGED fnVars

\* Lines 207-222: one iteration of the parse loop.
ReadLine ==
    /\ pc = "read"
    /\ line_no < Len(lines)
    /\ LET item == lines[line_no + 1]
           found == ExtractLine(item.text, book_id)
       IN  IF ~item.ok
           THEN /\ Fail(<<Fmt("Failed to read line from file", <<>>),
                          Fmt("stream did not contain valid UTF-8", <<>>)>>, out)
                /\ UNCHANGED <<accounts, line_no>>
           ELSE /\ accounts' = accounts \o found
                /\ out' = IF verbose
                          THEN out \o [i \in 1..Len(found) |->
                                         Stdout("Found account: {}", <<found[i].name>>)]
                          ELSE out
                /\ line_no' = line_no + 1
                /\ UNCHANGED <<pc, exit_status>>
    /\ UNCHANGED <<token, dry_run, verbose, book_name, file_ok, lines,
                   book_id, get_kind, idx, net, outcomes>>
    /\ UNCHANGED fnVars

\* The step after the parse loop, with its three tests made optional.
ReportVariant(at_end, empty_returns, dry_returns) ==
    /\ pc = "read"
    /\ at_end
    /\ IF empty_returns /\ accounts = <<>>
       THEN /\ out' = Append(out, Stdout("No accounts found in the file.", <<>>))
            /\ exit_status' = "ok"
            /\ pc' = "done"
       ELSE LET printed == Append(out, Stdout("Found {} accounts in the file.",
                                              <<Len(accounts)>>))
            IN  IF dry_returns /\ dry_run
                THEN /\ out' = Append(printed,
                          Stdout("Dry run mode enabled. Not creating accounts in Kanakku.", <<>>))
                     /\ exit_status' = "ok"
                     /\ pc' = "done"
                ELSE /\ out' = printed
                     /\ pc' = "create"
                     /\ UNCHANGED exit_status
    /\ UNCHANGED <<token, dry_run, verbose, book_name, file_ok, lines, line_no,
                   book_id, get_kind, accounts, idx, net, outcomes>>
    /\ UNCHANGED fnVars

\* Mutant: the dry-run flag is not looked at.
ReportNoDryRun == ReportVariant(line_no = Len(lines), TRUE, FALSE)

\* Mutant: an empty account list is not looked at.
ReportNoEmptyCheck == ReportVariant(line_no = Len(lines), FALSE, TRUE)

\* Mutant: the parse loop may end after any line.
ReportEarly == ReportVariant(line_no >= 1 \/ line_no = Len(lines), TRUE, TRUE)

\* Lines 224-234: after the parse loop, the count and the two early returns.
Report ==
    /\ pc = "read"
    /\ line_no = Len(lines)
    /\ IF accounts = <<>>
       THEN /\ out' = Append(out, Stdout("No accounts found in the file.", <<>>))
            /\ exit_status' = "ok"
            /\ pc' = "done"
       ELSE LET printed == Append(out, Stdout("Found {} accounts in the file.",
                                              <<Len(accounts)>>))
            IN  IF dry_run
                THEN /\ out' = Append(printed,
                          Stdout("Dry run mode enabled. Not creating accounts in Kanakku.", <<>>))
                     /\ exit_status' = "ok"
                     /\ pc' = "done"
                ELSE /\ out' = printed
                     /\ pc' = "create"
                     /\ UNCHANGED exit_status
    /\ UNCHANGED <<token, dry_run, verbose, book_name, file_ok, lines, line_no,
                   book_id, get_kind, accounts, idx, net, outcomes>>
    /\ UNCHANGED fnVars

\* Mutant: the first failed creation ends the run (the error is propagated).
CreateNextStopOnError ==
    /\ pc = "create"
    /\ idx < Len(accounts)
    /\ \E resp \in RunPostResponses :
         LET account == accounts[idx + 1]
             r == CreateAccount(resp)
             printed == out \o <<Stdout("Creating account: {}", <<account.name>>),
                                 Stdout("API URL: {}",
                                        <<Fmt("{}/api/v1/accounts", <<ApiUrl>>)>>)>>
         IN  /\ net' = Append(net, Request("POST", "/api/v1/accounts", token, <<account>>))
             /\ outcomes' = Append(outcomes, r)
             /\ IF r.ok
                THEN /\ out' = Append(printed, Stdout("Created account: {} (ID: {})",
                                        <<r.value.account.name, r.value.account.id>>))
                     /\ UNCHANGED <<pc, exit_status>>
                ELSE Fail(r.err, printed)
    /\ idx' = idx + 1
    /\ UNCHANGED <<token, dry_run, verbose, book_name, file_ok, lines, line_no,
                   book_id, get_kind, accounts>>
    /\ UNCHANGED fnVars

\* Lines 237-246: one iteration of the creation loop, with its POST.
CreateNext ==
    /\ pc = "create"
    /\ idx < Len(accounts)
    /\ \E resp \in RunPostResponses :
         LET account == accounts[idx + 1]
             r == CreateAccount(resp)
             printed == out \o <<Stdout("Creating account: {}", <<account.name>>),
                                 Stdout("API URL: {}",
                                        <<Fmt("{}/api/v1/accounts", <<ApiUrl>>)>>)>>
         IN  /\ net' = Append(net, Request("POST", "/api/v1/accounts", token, <<account>>))
             /\ outcomes' = Append(outcomes, r)
             /\ out' = IF r.ok
                       THEN Append(printed, Stdout("Created account: {} (ID: {})",
                                       <<r.value.account.name, r.value.account.id>>))
                       ELSE Append(printed, Stderr("Error creating account '{}': {}",
                                       <<account.name, r.err[1]>>))
    /\ idx' = idx + 1
    /\ UNCHANGED <<pc, token, dry_run, verbose, book_name, file_ok, lines, line_no,
                   book_id, get_kind, accounts, exit_status>>
    /\ UNCHANGED fnVars

\* Mutant: main returns Err when a creation failed.
FinishFailsOnError ==
    /\ pc = "create"
    /\ idx = Len(accounts)
    /\ exit_status' = IF \E i \in 1..Len(outcomes) : ~outcomes[i].ok THEN "fail" ELSE "ok"
    /\ pc' = "done"
    /\ UNCHANGED <<token, dry_run, verbose, book_name, file_ok, lines, line_no,
                   book_id, get_kind, accounts, idx, net, outcomes, out>>
    /\ UNCHANGED fnVars

\* Line 248: the creation loop is over, main returns Ok(()).
Finish ==
    /\ pc = "create"
    /\ idx = Len(accounts)
    /\ exit_status' = "ok"
    /\ pc' = "done"
    /\ UNCHANGED <<token, dry_run, verbose, book_name, file_ok, lines, line_no,
                   book_id, get_kind, accounts, idx, net, outcomes, out>>
    /\ UNCHANGED fnVars

Next ==
    \/ BuildHeaders
    \/ GetBookId
    \/ OpenFile
    \/ ReadLine
    \/ Report
    \/ CreateNext
    \/ Finish

Spec == Init /\ [][Next]_vars

----------------------------------------------------------------------------
(* The functions on their own: one input, one application *)

\* No run is under way.
RunIdle ==
    /\ pc = "idle"
    /\ token = <<>>
    /\ dry_run = FALSE
    /\ verbose = FALSE
    /\ book_name = ""
    /\ file_ok = FALSE
    /\ lines = <<>>
    /\ line_no = 0
    /\ book_id = 0
    /\ get_kind = "none"
    /\ accounts = <<>>
    /\ idx = 0
    /\ net = <<>>
    /\ outcomes = <<>>
    /\ out = <<>>
    /\ exit_status = "running"

\* The lines given to the extractor: the literal, or something close to it,
\* followed by up to MaxTail characters.
LinePrefixes ==
    {Literal, <<>>, <<" ">> \o Literal, SubSeq(Literal, 1, Len(Literal) - 1),
     <<"A">> \o Tail(Literal)}

ExtractorLines ==
    {p \o t : p \in LinePrefixes, t \in SeqsUpTo({" ", "\t", "x"}, MaxTail)}

InitExtract ==
    /\ RunIdle
    /\ fn = [name |-> "extract", applied |-> FALSE]
    /\ inp \in [line : ExtractorLines, book_id : BookIds]
    /\ res = <<>>

\* The body of the parse loop, applied to the line.
ApplyExtract ==
    /\ fn = [name |-> "extract", applied |-> FALSE]
    /\ res' = ExtractLine(inp.line, inp.book_id)
    /\ fn' = [fn EXCEPT !.applied = TRUE]
    /\ UNCHANGED inp
    /\ UNCHANGED runVars

SpecExtract == InitExtract /\ [][ApplyExtract]_vars

\* Every answer to the books GET, for the resolver on its own.
AllGetResponses ==
    {TransportFailure} \cup {Response(s, b) : s \in Statuses, b \in GetBodies}

InitBooks ==
    /\ RunIdle
    /\ fn = [name |-> "get_book_id_by_name", applied |-> FALSE]
    /\ inp \in [resp : AllGetResponses, name : RequestedNames]
    /\ res = Ok(0)

\* get_book_id_by_name, applied to the answer of the server.
ApplyGetBookId ==
    /\ fn = [name |-> "get_book_id_by_name", applied |-> FALSE]
    /\ res' = GetBookIdByName(inp.resp, inp.name)
    /\ fn' = [fn EXCEPT !.applied = TRUE]
    /\ UNCHANGED inp
    /\ UNCHANGED runVars

SpecBooks == InitBooks /\ [][ApplyGetBookId]_vars

InitCreate ==
    /\ RunIdle
    /\ fn = [name |-> "create_account", applied |-> FALSE]
    /\ inp \in PostResponses
    /\ res = Ok(NoApiResponse)

\* create_account, applied to the answer of the server.
ApplyCreateAccount ==
    /\ fn = [name |-> "create_account", applied |-> FALSE]
    /\ res' = CreateAccount(inp)
    /\ fn' = [fn EXCEPT !.applied = TRUE]
    /\ UNCHANGED inp
    /\ UNCHANGED runVars

SpecCreate == InitCreate /\ [][ApplyCreateAccount]_vars

----------------------------------------------------------------------------
(* The pattern ^account\s+(.+)$, stated by its splits *)

\* What follows the literal, for a line that starts with it.
AfterLiteral(line) == SubSeq(line, Len(Literal) + 1, Len(line))

\* The lengths \s+ can take: whitespace only, and at least one character left.
PatternSplits(line) ==
    IF Len(line) >= Len(Literal) /\ SubSeq(line, 1, Len(Literal)) = Literal
    THEN {k \in 1..(Len(AfterLiteral(line)) - 1) :
            \A i \in 1..k : AfterLiteral(line)[i] \in WS}
    ELSE {}

MatchesPattern(line) == PatternSplits(line) # {}

\* The captured group of a matching line: \s+ is greedy.
PatternCapture(line) ==
    LET k == CHOOSE m \in PatternSplits(line) : \A n \in PatternSplits(line) : n <= m
    IN  SubSeq(AfterLiteral(line), k + 1, Len(AfterLiteral(line)))

RECURSIVE ExpectedNames(_)
\* The names of the declarations of a file, in file order.
ExpectedNames(ls) ==
    IF ls = <<>> THEN <<>>
    ELSE (IF ls[1].ok /\ MatchesPattern(ls[1].text)
          THEN <<Trim(PatternCapture(ls[1].text))>> ELSE <<>>)
         \o ExpectedNames(Tail(ls))

----------------------------------------------------------------------------
(* Properties of the functions *)

\* C2: a line that matches ^account\s+(.+)$ with a capture that is not all
\* whitespace gives exactly one account, named by the trimmed capture; every
\* other line, a match whose trimmed capture is empty included, gives none.
C2_ExtractorAsClaimed ==
    (fn.name = "extract" /\ fn.applied) =>
        IF MatchesPattern(inp.line) /\ Trim(PatternCapture(inp.line)) # <<>>
        THEN res = <<MkAccount(Trim(PatternCapture(inp.line)), inp.book_id)>>
        ELSE res = <<>>

\* The records of the listing given to the resolver.
InpListing == inp.resp.body.json.e

InpParsed ==
    /\ fn.name = "get_book_id_by_name"
    /\ ResponseKind(inp.resp, inp.name) \in {"match", "no_match"}

\* The records of the listing whose name is the requested one.
InpMatches == {i \in 1..Len(InpListing) : InpListing[i].f.name.s = inp.name}

\* C3: for a successful listing, get_book_id_by_name returns the id of the
\* first record whose name equals the requested name, whatever follows it;
\* with no such record it fails with the not-found error naming the requested
\* book, so a record with another name never gives its id.
C3_FirstExactMatch ==
    (InpParsed /\ fn.applied) =>
        IF InpMatches # {}
        THEN LET first == CHOOSE i \in InpMatches : \A j \in InpMatches : i <= j
             IN  res.ok /\ res.value = InpListing[first].f.id.n
        ELSE ~res.ok /\ res.err = <<Fmt("No book found with name: {}", <<inp.name>>)>>

\* Two records with the requested name and different ids, resolved.
C3_Witness ==
    /\ InpParsed
    /\ fn.applied
    /\ Len(InpListing) = 2
    /\ InpMatches = {1, 2}
    /\ InpListing[1].f.id.n # InpListing[2].f.id.n
    /\ res.ok

\* The body of the answer deserializes into ErrorResponse.
InpIsErrorDocument ==
    LET doc == inp.body.json
    IN  \/ doc.t = "obj" /\ "error" \in DOMAIN doc.f /\ doc.f.error.t = "str"
        \/ doc.t = "arr" /\ Len(doc.e) = 1 /\ doc.e[1].t = "str"

InpErrorString ==
    IF inp.body.json.t = "obj" THEN inp.body.json.f.error.s ELSE inp.body.json.e[1].s

\* C4: for every status outside 2xx create_account returns an error, whose
\* message carries the status code and its reason phrase ("Unknown" for a code
\* that has none) and then: the error string of a body that deserializes into
\* ErrorResponse; the raw text after "Error response: " for any other
\* non-empty body; "HTTP Error: <status> (no response body)" for an empty one.
C4_ErrorClassified ==
    (fn.name = "create_account" /\ fn.applied /\ inp.sent /\ inp.status \notin 200..299) =>
        LET text == IF inp.body.readable THEN inp.body.text ELSE ""
            reason == CanonicalReason(inp.status)
            expected ==
                IF text = ""
                THEN Fmt("HTTP Error: {} (no response body)",
                         <<Fmt("{} {}", <<inp.status,
                               IF reason.some THEN reason.v ELSE "<unknown status code>">>)>>)
                ELSE IF InpIsErrorDocument THEN Fmt("{}", <<InpErrorString>>)
                ELSE Fmt("Error response: {}", <<text>>)
        IN  /\ ~res.ok
            /\ res.err = <<Fmt("API error ({} {}): {}",
                               <<inp.status, IF reason.some THEN reason.v ELSE "Unknown",
                                 expected>>)>>

\* The 400 answer with {"error":"Bad request"}, classified.
C4_Witness ==
    /\ fn.name = "create_account"
    /\ fn.applied
    /\ inp = Response(400, ErrJsonBody)
    /\ ~res.ok
    /\ res.err[1].args[3] = Fmt("{}", <<"Bad request">>)

----------------------------------------------------------------------------
(* Properties of a run *)

IsPost(r) == r.method = "POST"
IsGet(r)  == r.method = "GET"

\* The account-creation requests sent so far, and the books requests.
Posts == SelectSeq(net, IsPost)
Gets  == SelectSeq(net, IsGet)

TheGet == Request("GET", "/api/v1/books", token, <<>>)

AllDecodable == \A i \in 1..Len(lines) : lines[i].ok

\* Nothing run-level fails: the credential makes a header, the book resolves,
\* the file opens and every line of it is text.
RunCanComplete ==
    /\ IsValidHeaderValue(token)
    /\ get_kind = "match"
    /\ file_ok
    /\ AllDecodable

\* The number of declarations in the file.
MatchCount == Len(ExpectedNames(lines))

Printed(stream, f, a) ==
    \E i \in 1..Len(out) : out[i].stream = stream /\ out[i].fmt = f /\ out[i].args = a

\* C1: the creation loop sends one POST per extracted account, in file order
\* and with that account as its body, whatever the outcome of each creation:
\* a failed creation is not retried and does not end the loop, and a run that
\* is no dry run and returns Ok has sent a POST for every declaration of the
\* file, duplicates included.
C1_OnePostPerAccountInOrder ==
    /\ Len(Posts) = idx
    /\ Len(outcomes) = idx
    /\ idx <= Len(accounts)
    /\ \A i \in 1..Len(Posts) :
          /\ i <= Len(accounts)
          /\ Posts[i] = Request("POST", "/api/v1/accounts", token, <<accounts[i]>>)
          /\ i <= MatchCount
          /\ Posts[i].body[1].name = ExpectedNames(lines)[i]
    /\ (idx > 0 /\ idx < Len(accounts)) => (pc = "create" /\ exit_status = "running")
    /\ (pc = "done" /\ exit_status = "ok" /\ ~dry_run) => Len(Posts) = MatchCount

\* The same declaration twice: the first creation failed, the second was
\* still sent and succeeded.
C1_Witness ==
    /\ pc = "done"
    /\ exit_status = "ok"
    /\ Len(Posts) = 2
    /\ Posts[1].body = Posts[2].body
    /\ ~outcomes[1].ok
    /\ outcomes[2].ok

C7_ExitStatus ==
    /\ pc # "done" => exit_status = "running"
    /\ pc = "done" =>
          /\ exit_status \in {"ok", "fail"}
          /\ (exit_status = "ok") = RunCanComplete

\* Two creations, both failed, and main returned Ok.
C7_Witness ==
    /\ pc = "done"
    /\ exit_status = "ok"
    /\ Len(outcomes) = 2
    /\ \A i \in 1..2 : ~outcomes[i].ok

C9_BookResolvedOnce ==
    /\ Len(Gets) <= 1
    /\ \A i \in 1..Len(net) : IsGet(net[i]) => i = 1
    /\ Posts # <<>> => (net[1] = TheGet /\ get_kind = "match")
    /\ \A i \in 1..Len(Posts) :
          Posts[i].body[1].book_id = book_id /\ book_id \in BookIds
    /\ get_kind \in {"transport", "status", "unparsable", "no_match"} =>
          (pc = "done" /\ exit_status = "fail" /\ Posts = <<>> /\ book_id = 0)

\* One GET, then two POSTs.
C9_Witness ==
    /\ pc = "done"
    /\ Len(Gets) = 1
    /\ Len(Posts) = 2
    /\ Posts[1].body[1].book_id = Posts[2].body[1].book_id

\* main has returned the error of File::open or of a line read.
AbortedOnRead ==
    \E i \in 1..Len(out) :
        /\ out[i].fmt = "Error: {:?}"
        /\ out[i].args[1][1].fmt \in
              {"Failed to open file: {}", "Failed to read line from file"}

====
